---------------------------- MODULE Spec2Model ----------------------------
(***************************************************************************)
(* Verification model of the subscription automation system's core:       *)
(*   - utils/scheduler.py               SystemScheduler                     *)
(*   - api/subscription_with_naver.py   SubscriptionNaverIntegration        *)
(*                                                                         *)
(* Specification Spec is the scheduler: one SystemScheduler object, the    *)
(* background loop threads it creates, one foreground flow calling its     *)
(* public methods, and the wall clock.                                     *)
(* Specification SpecRate is the rate limiter: flows sharing one           *)
(* SubscriptionNaverIntegration call _wait_for_rate_limit back to back.    *)
(* Specification SpecRequest is one flow calling _make_api_request.        *)
(* Specification SpecAggregate is one flow running search_related_news or  *)
(* search_market_trends against a server that answers each request.        *)
(* Times of the search client are in tenths of a second.                   *)
(***************************************************************************)
EXTENDS Integers, Sequences, FiniteSets, TLC

VARIABLES
    \* ---- SystemScheduler fields (scheduler.py:31-38)
    is_running,           \* self.is_running
    is_enabled,           \* self.is_enabled
    target_time,          \* self.target_time, [hour, minute]
    last_execution_date,  \* self.last_execution_date, NoDate or a date
    stop_event,           \* self.stop_event (threading.Event), TRUE when set
    scheduler_thread,     \* self.scheduler_thread, NoThread or a thread id
    \* ---- the flows
    threads,              \* thread id -> position of that _scheduler_loop thread
    callerPc,             \* position of the foreground flow calling the API
    \* ---- environment
    now,                  \* datetime.now(): [date, minute] (minute of the day)
    \* ---- history
    firesToday,           \* automatic firings on the current date: 0, 1, or 2 for more
    armed,                \* how the current trigger window was entered
    \* ---- SubscriptionNaverIntegration (subscription_with_naver.py:36)
    last_call_time,       \* self.last_call_time
    clk,                  \* time.time()
    callers,              \* flow id -> position of that flow in the client
    requests,             \* number of _make_api_request calls begun
    \* ---- one aggregation: search_related_news or search_market_trends
    agg,                  \* its position and its locals all_news, all_blogs
    report                \* what it returned

schedVars == <<is_running, is_enabled, target_time, last_execution_date,
               stop_event, scheduler_thread, threads, callerPc, now,
               firesToday, armed>>

clientVars == <<last_call_time, clk, callers, requests>>

aggVars == <<agg, report>>

vars == <<schedVars, clientVars, aggVars>>

---------------------------------------------------------------------------
(* Bounds of the model *)

MaxDay == 2

MaxThreads == 2

\* Flows sharing one client object.
RateCallers == 2

\* time.time() when the client object is constructed.
Epoch == 10

\* SpecRate follows the clock this far beyond Epoch.
RateHorizon == 14

\* _make_api_request calls followed by SpecRequest.
MaxRequests == 2

\* Attempt numbers for which the backoff formula is evaluated
MaxExponent == 8

Days == 1..MaxDay

ThreadIds == 1..MaxThreads

\* The minutes of the day at which the clock is observed: both sides of each
\* edge of the trigger windows of the target times of TimeStrings.
ClockMinutes == <<534, 535, 542, 545, 546, 556>>

---------------------------------------------------------------------------
(* Program constants *)

NoDate == 0

NoThread == 0

Tolerance == 5

DefaultTargetTime == [hour |-> 9, minute |-> 0]
\* seconds of stop_event.wait(30) at the end of an iteration
PollInterval == 30
\* seconds of time.sleep(60) in the loop's exception handler
CooldownInterval == 60

\* subscription_with_naver.py, in tenths of a second
MinDelay == 5

JitterMin == 1

JitterMax == 3

MaxRetries == 3

BackoffFactor == 2

BackoffCap == 300

HttpErrorDelay == 10

TimeoutDelay == 20

ConnErrorDelay == 10

RequestTimeout == 100

---------------------------------------------------------------------------
(* Time strings and their parsing (set_schedule, scheduler.py:50-53) *)

Digits == <<"0", "1", "2", "3", "4", "5", "6", "7", "8", "9">>

IsDigit(c) == \E k \in 1..10 : Digits[k] = c

DigitVal(c) == (CHOOSE k \in 1..10 : Digits[k] = c) - 1

\* The arguments target_time_str the foreground flow passes: "09:00", "09:10",
\* "", "25:00", "0900", "09:1x", as sequences of characters.
TimeStrings ==
    { <<"0", "9", ":", "0", "0">>,
      <<"0", "9", ":", "1", "0">>,
      << >>,
      <<"2", "5", ":", "0", "0">>,
      <<"0", "9", "0", "0">>,
      <<"0", "9", ":", "1", "x">> }

\* str.split(':')
RECURSIVE SplitColon(_)
SplitColon(s) ==
    IF \A k \in 1..Len(s) : s[k] # ":"
    THEN <<s>>
    ELSE LET k == CHOOSE j \in 1..Len(s) :
                     s[j] = ":" /\ \A i \in 1..(j - 1) : s[i] # ":"
         IN <<SubSeq(s, 1, k - 1)>> \o SplitColon(SubSeq(s, k + 1, Len(s)))

RECURSIVE DecimalValue(_)
DecimalValue(p) ==
    IF Len(p) = 0 THEN 0
    ELSE 10 * DecimalValue(SubSeq(p, 1, Len(p) - 1)) + DigitVal(p[Len(p)])

\* int(part): ok is FALSE where int raises ValueError
ParseInt(p) ==
    IF Len(p) > 0 /\ \A k \in 1..Len(p) : IsDigit(p[k])
    THEN [ok |-> TRUE, val |-> DecimalValue(p)]
    ELSE [ok |-> FALSE, val |-> 0]

\* ParseTime with the two parts unpacked in the wrong order
ParseTimeSwapped(s) ==
    LET parts == SplitColon(s) IN
    IF Len(parts) # 2 THEN [ok |-> FALSE, hour |-> 0, minute |-> 0]
    ELSE LET m == ParseInt(parts[1])
             h == ParseInt(parts[2])
         IN IF h.ok /\ m.ok /\ h.val \in 0..23 /\ m.val \in 0..59
            THEN [ok |-> TRUE, hour |-> h.val, minute |-> m.val]
            ELSE [ok |-> FALSE, hour |-> 0, minute |-> 0]

\* hour, minute = map(int, s.split(':')); dt_time(hour, minute)
\* ok is FALSE where one of the three raises ValueError.
ParseTime(s) ==
    LET parts == SplitColon(s) IN
    IF Len(parts) # 2 THEN [ok |-> FALSE, hour |-> 0, minute |-> 0]
    ELSE LET h == ParseInt(parts[1])
             m == ParseInt(parts[2])
         IN IF h.ok /\ m.ok /\ h.val \in 0..23 /\ m.val \in 0..59
            THEN [ok |-> TRUE, hour |-> h.val, minute |-> m.val]
            ELSE [ok |-> FALSE, hour |-> 0, minute |-> 0]

---------------------------------------------------------------------------
(* Helpers *)

Abs(x) == IF x < 0 THEN -x ELSE x

Min(a, b) == IF a < b THEN a ELSE b

FreshThread == [pc |-> "none", cur_date |-> NoDate, raised |-> FALSE,
                elapsed |-> FALSE, interval |-> 0]

\* Thread.is_alive()
IsAlive(i) == threads[i].pc \in {"while", "task", "wait"}

LiveThreads == {i \in ThreadIds : IsAlive(i)}

\* target_time.hour * 60 + target_time.minute
MinuteOfDay(t) == t.hour * 60 + t.minute

\* _should_execute with "already executed" read as "executed at all"
ShouldExecuteOnceEver(current_minutes, current_date) ==
    IF last_execution_date # NoDate
    THEN FALSE
    ELSE Abs(current_minutes - MinuteOfDay(target_time)) <= Tolerance

\* _should_execute with the window's edge left out
ShouldExecuteStrict(current_minutes, current_date) ==
    IF last_execution_date = current_date
    THEN FALSE
    ELSE Abs(current_minutes - MinuteOfDay(target_time)) < Tolerance

\* _should_execute(current_time, current_date)
ShouldExecute(current_minutes, current_date) ==
    IF last_execution_date = current_date
    THEN FALSE
    ELSE Abs(current_minutes - MinuteOfDay(target_time)) <= Tolerance

\* The trigger window of target time t.
InWindow(minute, t) == Abs(minute - MinuteOfDay(t)) <= 5

---------------------------------------------------------------------------
(* The foreground flow: the public methods *)

\* threading.Thread(target=self._scheduler_loop).start(): the new thread takes
\* a free slot.
SpawnLoop(i) ==
    /\ ~IsAlive(i)
    /\ \A j \in ThreadIds : j < i => IsAlive(j)
    /\ threads' = [threads EXCEPT ![i] = [FreshThread EXCEPT !.pc = "while"]]
    /\ scheduler_thread' = i

\* The body of start_scheduler() once is_running is known to be False.
StartBody ==
    /\ is_running' = TRUE
    /\ stop_event' = FALSE
    /\ \E i \in ThreadIds : SpawnLoop(i)

\* The body of stop_scheduler() once is_running is known to be True, up to
\* the join: the caller blocks in join(timeout=2.0) when the thread is alive.
StopBody ==
    /\ is_running' = FALSE
    /\ stop_event' = TRUE
    /\ callerPc' = IF scheduler_thread # NoThread /\ IsAlive(scheduler_thread)
                   THEN "joining" ELSE "idle"
    /\ UNCHANGED <<scheduler_thread, threads>>

start_scheduler ==
    /\ callerPc = "idle"
    /\ IF is_running
       THEN UNCHANGED <<is_running, stop_event, threads, scheduler_thread>>
       ELSE StartBody
    /\ armed' = armed
    /\ UNCHANGED <<is_enabled, target_time, last_execution_date, callerPc,
                   now, firesToday>>
    /\ UNCHANGED <<clientVars, aggVars>>

stop_scheduler ==
    /\ callerPc = "idle"
    /\ IF ~is_running
       THEN UNCHANGED <<is_running, stop_event, threads, scheduler_thread,
                        callerPc>>
       ELSE StopBody
    /\ armed' = IF is_running THEN "none" ELSE armed
    /\ UNCHANGED <<is_enabled, target_time, last_execution_date, now,
                   firesToday>>
    /\ UNCHANGED <<clientVars, aggVars>>

\* join(timeout=2.0) returns: the thread has ended, or the two seconds have
\* passed with the thread inside the task.
JoinReturn ==
    /\ callerPc = "joining"
    /\ \/ ~IsAlive(scheduler_thread)
       \/ threads[scheduler_thread].pc = "task"
    /\ callerPc' = "idle"
    /\ UNCHANGED <<is_running, is_enabled, target_time, last_execution_date,
                   stop_event, scheduler_thread, threads, now, firesToday,
                   armed>>
    /\ UNCHANGED <<clientVars, aggVars>>

set_schedule(enabled, target_time_str) ==
    /\ callerPc = "idle"
    /\ is_enabled' = enabled
    /\ IF enabled /\ Len(target_time_str) > 0
       THEN LET t == ParseTime(target_time_str) IN
            IF ~t.ok
            THEN \* ValueError: logged
                 UNCHANGED <<target_time, is_running, stop_event, threads,
                             scheduler_thread, callerPc>>
            ELSE /\ target_time' = [hour |-> t.hour, minute |-> t.minute]
                 /\ IF ~is_running
                    THEN StartBody
                    ELSE UNCHANGED <<is_running, stop_event, threads,
                                     scheduler_thread>>
                 /\ UNCHANGED callerPc
       ELSE /\ UNCHANGED target_time
            /\ IF is_running
               THEN StopBody
               ELSE UNCHANGED <<is_running, stop_event, threads,
                                scheduler_thread, callerPc>>
    /\ armed' = IF is_enabled' /\ is_running' /\ is_running
                   /\ target_time' = target_time
                THEN armed ELSE "none"
    /\ UNCHANGED <<last_execution_date, now, firesToday>>
    /\ UNCHANGED <<clientVars, aggVars>>

\* force_execution(): _execute_scheduled_task() on the calling flow.
force_execution ==
    /\ callerPc = "idle"
    /\ callerPc' = "forcing"
    /\ UNCHANGED <<is_running, is_enabled, target_time, last_execution_date,
                   stop_event, scheduler_thread, threads, now, firesToday,
                   armed>>
    /\ UNCHANGED <<clientVars, aggVars>>

\* ForceReturn sharing the loop's bookkeeping of the execution date
ForceReturnRecordsDate ==
    /\ callerPc = "forcing"
    /\ callerPc' = "idle"
    /\ last_execution_date' = now.date
    /\ UNCHANGED <<is_running, is_enabled, target_time, stop_event,
                   scheduler_thread, threads, now, firesToday, armed>>
    /\ UNCHANGED <<clientVars, aggVars>>

\* target_function() returns or raises on the calling flow; either way
\* _execute_scheduled_task returns normally.
ForceReturn ==
    /\ callerPc = "forcing"
    /\ callerPc' = "idle"
    /\ UNCHANGED <<is_running, is_enabled, target_time, last_execution_date,
                   stop_event, scheduler_thread, threads, now, firesToday,
                   armed>>
    /\ UNCHANGED <<clientVars, aggVars>>

\* get_status(): reads is_running, is_enabled, target_time and
\* last_execution_date and the clock, and returns a dict built from them.
get_status ==
    /\ callerPc = "idle"
    /\ UNCHANGED schedVars
    /\ UNCHANGED <<clientVars, aggVars>>

---------------------------------------------------------------------------
(* The background loop: _scheduler_loop on thread i *)

\* The thread is at the head of the loop: it has just been started, or its
\* stop_event.wait(30) returns (the event is set or the 30 seconds are over).
AtLoopHead(i) ==
    \/ threads[i].pc = "while"
    \/ threads[i].pc = "wait" /\ (stop_event \/ threads[i].elapsed)

\* Lines 101-115: the loop's head and the trigger check of one iteration; on
\* success target_function is entered, otherwise the thread waits again.
LoopIteration(i) ==
    /\ AtLoopHead(i)
    /\ IF stop_event
       THEN /\ threads' = [threads EXCEPT ![i] = FreshThread]
            /\ UNCHANGED firesToday
       ELSE IF is_enabled /\ ShouldExecute(now.minute, now.date)
       THEN /\ threads' = [threads EXCEPT ![i] =
                              [FreshThread EXCEPT !.pc = "task",
                                                  !.cur_date = now.date]]
            /\ firesToday' = Min(firesToday + 1, 2)
       ELSE /\ threads' = [threads EXCEPT ![i] =
                              [FreshThread EXCEPT !.pc = "wait",
                                                  !.interval = PollInterval]]
            /\ UNCHANGED firesToday
    /\ UNCHANGED <<is_running, is_enabled, target_time, last_execution_date,
                   stop_event, scheduler_thread, callerPc, now, armed>>
    /\ UNCHANGED <<clientVars, aggVars>>

\* AfterTask with the exception left uncaught: the thread dies
AfterTaskUncaught(raised) == IF raised THEN "none" ELSE "wait"

\* Where the loop goes when target_function has returned (raised = FALSE) or
\* raised an exception: _execute_scheduled_task catches it (line 147).
AfterTask(raised) == "wait"

\* The pause that follows a task: the exception never leaves
\* _execute_scheduled_task, so the handler of lines 117-119 and its
\* time.sleep(60) are not entered and the loop goes on to line 115.
PauseAfterTask(raised) == PollInterval

\* Lines 143-148 and 112: the task ends, last_execution_date is recorded, the
\* loop goes on to stop_event.wait(30).
TaskEnd(i, raised) ==
    /\ threads[i].pc = "task"
    /\ last_execution_date' = threads[i].cur_date
    /\ threads' = [threads EXCEPT ![i] =
                      [pc |-> AfterTask(raised), cur_date |-> NoDate,
                       raised |-> raised, elapsed |-> FALSE,
                       interval |-> PauseAfterTask(raised)]]
    /\ UNCHANGED <<is_running, is_enabled, target_time, stop_event,
                   scheduler_thread, callerPc, now, firesToday, armed>>
    /\ UNCHANGED <<clientVars, aggVars>>

---------------------------------------------------------------------------
(* The clock *)

\* A flow that is neither inside target_function nor inside a wait that has
\* time left takes its next step before the clock moves on: those steps take
\* far less than a minute, and join waits two seconds at most.
Blocked(i) == ~AtLoopHead(i)

NextNow ==
    IF \E k \in 1..Len(ClockMinutes) : ClockMinutes[k] > now.minute
    THEN [date |-> now.date,
          minute |-> ClockMinutes[CHOOSE k \in 1..Len(ClockMinutes) :
                          /\ ClockMinutes[k] > now.minute
                          /\ \A j \in 1..(k - 1) : ClockMinutes[j] <= now.minute]]
    ELSE [date |-> now.date + 1, minute |-> ClockMinutes[1]]

Tick ==
    /\ callerPc # "joining"
    /\ \A i \in LiveThreads : Blocked(i)
    /\ NextNow.date <= MaxDay
    /\ now' = NextNow
    /\ threads' = [i \in ThreadIds |->
                      IF threads[i].pc = "wait"
                      THEN [threads[i] EXCEPT !.elapsed = TRUE, !.raised = FALSE]
                      ELSE threads[i]]
    /\ armed' = IF now'.date = now.date /\ InWindow(now'.minute, target_time)
                THEN IF InWindow(now.minute, target_time)
                     THEN armed
                     ELSE IF ~(is_running /\ is_enabled) THEN "none"
                          ELSE IF \E i \in LiveThreads : threads[i].pc = "wait"
                               THEN "idle" ELSE "busy"
                ELSE "none"
    /\ firesToday' = IF now'.date = now.date THEN firesToday ELSE 0
    /\ UNCHANGED <<is_running, is_enabled, target_time, last_execution_date,
                   stop_event, scheduler_thread, callerPc>>
    /\ UNCHANGED <<clientVars, aggVars>>

---------------------------------------------------------------------------
(* The search client: _wait_for_rate_limit and _make_api_request *)

CallerIds == 1..RateCallers

\* A flow that has not entered the client.
IdleCaller == [pc |-> "idle", ret |-> "idle", wake |-> 0, attempt |-> 0,
               acquired |-> FALSE, last_return |-> 0, returns |-> 0,
               result |-> "none", body |-> 0, attempts |-> 0,
               outcome |-> "none"]

\* The client object after __init__, no flow inside it.
ClientIdle ==
    /\ last_call_time = 0
    /\ clk = Epoch
    /\ callers = [c \in CallerIds |-> IdleCaller]
    /\ requests = 0

RECURSIVE Pow(_, _)
Pow(b, n) == IF n = 0 THEN 1 ELSE b * Pow(b, n - 1)

\* total_sleep with the remaining time left out
TotalSleepJitterOnly(time_since_last_call, jitter) == jitter

\* Lines 51-54: total_sleep = (min_delay - time_since_last_call) + jitter
TotalSleep(time_since_last_call, jitter) ==
    (MinDelay - time_since_last_call) + jitter

\* Lines 47-57: read the clock and last_call_time, decide whether to sleep;
\* wake is the time the sleep is over.
RateRead(c, jitter) ==
    /\ callers[c].pc = "call"
    /\ LET time_since_last_call == clk - last_call_time IN
       IF time_since_last_call < MinDelay
       THEN callers' = [callers EXCEPT ![c] =
                [@ EXCEPT !.pc = "sleep",
                          !.wake = clk + TotalSleep(time_since_last_call, jitter)]]
       ELSE callers' = [callers EXCEPT ![c] = [@ EXCEPT !.pc = "stamp"]]
    /\ UNCHANGED <<last_call_time, clk, requests>>
    /\ UNCHANGED <<schedVars, aggVars>>

\* time.sleep(total_sleep) returns, no earlier than asked.
RateWake(c) ==
    /\ callers[c].pc = "sleep"
    /\ clk >= callers[c].wake
    /\ callers' = [callers EXCEPT ![c] = [@ EXCEPT !.pc = "stamp"]]
    /\ UNCHANGED <<last_call_time, clk, requests>>
    /\ UNCHANGED <<schedVars, aggVars>>

\* Line 59: self.last_call_time = time.time(), and the call returns.
RateStamp(c) ==
    /\ callers[c].pc = "stamp"
    /\ last_call_time' = clk
    /\ callers' = [callers EXCEPT ![c] =
            [@ EXCEPT !.pc = callers[c].ret, !.wake = 0, !.acquired = TRUE,
                      !.last_return = clk,
                      !.returns = Min(callers[c].returns + 1, 2)]]
    /\ UNCHANGED <<clk, requests>>
    /\ UNCHANGED <<schedVars, aggVars>>

\* A tenth of a second passes.
RateTick ==
    /\ clk < Epoch + RateHorizon
    /\ clk' = clk + 1
    /\ UNCHANGED <<last_call_time, callers, requests>>
    /\ UNCHANGED <<schedVars, aggVars>>

\* How long requests.get takes when it returns a response or fails to
\* connect; a timeout takes RequestTimeout.
HttpDurations == {0, 3}

\* What one attempt can bring: a response with status 200 and a JSON body,
\* with status 429 or with another status, requests.exceptions.Timeout,
\* another RequestException, or a response with status 200 whose body
\* response.json() cannot parse.  The last raises at line 82: a ValueError,
\* which no except clause of the method catches ("badjson"), or with a newer
\* requests library a RequestException, which is outcome "connerr".
Outcomes == {"200", "429", "500", "timeout", "connerr", "badjson"}

\* Line 70: flow c enters _make_api_request, attempt = 0.
BeginRequest(c) ==
    [callers[c] EXCEPT !.pc = "call", !.ret = "http", !.attempt = 0,
                       !.acquired = FALSE, !.result = "pending", !.body = 0,
                       !.attempts = 0, !.outcome = "none"]

\* _make_api_request(url, params) is called.
ReqBegin(c) ==
    /\ callers[c].pc = "idle"
    /\ requests < MaxRequests
    /\ requests' = requests + 1
    /\ callers' = [callers EXCEPT ![c] = BeginRequest(c)]
    /\ UNCHANGED <<last_call_time, clk>>
    /\ UNCHANGED <<schedVars, aggVars>>

\* The next attempt entered without the rate limiter
NextAttemptPcUnlimited == "http"

\* Lines 70-73: where an iteration of the retry loop starts
NextAttemptPc == "call"

\* retry_delay with the attempt counted from one
RetryDelayOneBased(attempt) ==
    Min(MinDelay * Pow(BackoffFactor, attempt + 1), BackoffCap)

\* Lines 86-88: retry_delay after a 429 on this attempt
RetryDelay(attempt) ==
    Min(MinDelay * Pow(BackoffFactor, attempt), BackoffCap)

\* The last attempt taken to be the one before it
LastAttemptEarly(attempt) == attempt >= MaxRetries - 2

\* Line 97: attempt == self.max_retries - 1
LastAttempt(attempt) == attempt = MaxRetries - 1

\* A timeout or a connection error never followed by the fixed delay
CanRetryNoDelay(attempt) == FALSE

\* Lines 106 and 112: attempt < self.max_retries - 1
CanRetry(attempt) == attempt < MaxRetries - 1

\* The retry loop running one iteration more
InRangeInclusive(attempt) == attempt <= MaxRetries

\* Line 70: attempt is a value of range(self.max_retries)
InRange(attempt) == attempt < MaxRetries

\* The flow as _make_api_request returns.
Returned(c, result, body) ==
    [callers[c] EXCEPT !.pc = "idle", !.wake = 0, !.acquired = FALSE,
                       !.result = result, !.body = body]

\* Lines 81, 98 and 117: what the caller of _make_api_request receives, the
\* parsed body of the 200 response or None; None carries nothing else.
ReturnValue(c) ==
    IF callers[c].result = "ok"
    THEN [value |-> "dict", body |-> callers[c].body, kind |-> "none"]
    ELSE [value |-> "None", body |-> 0, kind |-> "none"]

\* The flow as it starts time.sleep(delay) before the next iteration.
BackingOff(c, delay) ==
    [callers[c] EXCEPT !.pc = "backoff", !.wake = clk' + delay,
                       !.acquired = FALSE]

\* Lines 77-114: one physical attempt, requests.get and what follows it up
\* to the return or the sleep before the next iteration.
\* The body of a 200 response is identified by the physical request it
\* answers; an exception that is no RequestException leaves the method.
HttpAttempt(c, outcome, duration) ==
    /\ callers[c].pc = "http"
    /\ clk' = clk + (IF outcome = "timeout" THEN RequestTimeout ELSE duration)
    /\ LET attempt == callers[c].attempt
           after ==
             CASE outcome = "200" -> Returned(c, "ok", callers[c].attempts + 1)
               [] outcome = "429" -> BackingOff(c, RetryDelay(attempt))
               [] outcome = "500" ->
                     IF LastAttempt(attempt)
                     THEN Returned(c, "failed", 0)
                     ELSE BackingOff(c, HttpErrorDelay)
               [] outcome = "timeout" ->
                     IF CanRetry(attempt)
                     THEN BackingOff(c, TimeoutDelay)
                     ELSE BackingOff(c, 0)
               [] outcome = "connerr" ->
                     IF CanRetry(attempt)
                     THEN BackingOff(c, ConnErrorDelay)
                     ELSE BackingOff(c, 0)
               [] outcome = "badjson" -> Returned(c, "raised", 0)
       IN callers' = [callers EXCEPT ![c] =
              [after EXCEPT !.attempts = callers[c].attempts + 1,
                            !.outcome = outcome]]
    /\ UNCHANGED <<last_call_time, requests>>
    /\ UNCHANGED <<schedVars, aggVars>>

\* The sleep is over and the for loop takes its next value, or ends:
\* line 117, return None.
NextIteration(c) ==
    /\ callers[c].pc = "backoff"
    /\ clk >= callers[c].wake
    /\ callers' = [callers EXCEPT ![c] =
            IF InRange(callers[c].attempt + 1)
            THEN [@ EXCEPT !.pc = NextAttemptPc, !.wake = 0,
                           !.attempt = callers[c].attempt + 1]
            ELSE Returned(c, "failed", 0)]
    /\ UNCHANGED <<last_call_time, clk, requests>>
    /\ UNCHANGED <<schedVars, aggVars>>

\* The time a sleeping flow sleeps passes.
ReqSleep(c) ==
    /\ callers[c].pc \in {"sleep", "backoff"}
    /\ clk < callers[c].wake
    /\ clk' = callers[c].wake
    /\ UNCHANGED <<last_call_time, callers, requests>>
    /\ UNCHANGED <<schedVars, aggVars>>

---------------------------------------------------------------------------
(* The aggregations: search_related_news and search_market_trends *)

\* Line 219: unique_news[:15]
RelatedCap == 15

\* Line 290: unique_news[:5]
LatestCap == 5

\* Lines 206, 259, 266: time.sleep(random.uniform(1.0, 1.5))
PauseMin == 10

PauseMax == 15

\* Lines 303-307: the number of keyword_candidates, numbered in the order of
\* the list: 1 is 'bunyang', 15 is 'bunyanggwon', which contains it
VocabularySize == 18

\* Line 313: list(keywords)[:10]
KeywordCap == 10

\* Lines 192 and 246: the fixed search keywords, in order
SearchKeywords == <<"budongsan", "bunyang", "cheongyak">>

\* The queries of a trends aggregation with the blog search first
QueryAtBlogFirst(kind, step) ==
    IF kind = "related"
    THEN [source |-> "news", keyword |-> SearchKeywords[step]]
    ELSE [source |-> IF step % 2 = 1 THEN "blog" ELSE "news",
          keyword |-> SearchKeywords[(step + 1) \div 2]]

\* Lines 198-202 and 251-262: the step-th search of an aggregation: one news
\* search per keyword, in search_market_trends each followed by a blog search
QueryAt(kind, step) ==
    IF kind = "related"
    THEN [source |-> "news", keyword |-> SearchKeywords[step]]
    ELSE [source |-> IF step % 2 = 1 THEN "news" ELSE "blog",
          keyword |-> SearchKeywords[(step + 1) \div 2]]

\* The number of searches of an aggregation
Steps(kind) ==
    IF kind = "related" THEN Len(SearchKeywords) ELSE 2 * Len(SearchKeywords)

\* An item of a response: its link, its pubDate as a number that grows with
\* time, its title ("null" for a JSON null), its description, and the search
\* that returned it (0 while it is part of a response).  A description is a
\* sequence of pieces of text: k in 1..VocabularySize is a word that is the
\* k-th keyword candidate, 0 is a <b> or </b> tag; the titles of the model
\* hold no candidate.
Described(link, pubDate, title, description) ==
    [link |-> link, pubDate |-> pubDate, title |-> title,
     description |-> description, origin |-> 0]

Item(link, pubDate, title) == Described(link, pubDate, title, <<>>)

\* The parsed bodies a news search may get: each lists its items most recent
\* first, as sort=date asks; one has an item without a link, one has no
\* 'items' key.
NewsBodies ==
    { [has_items |-> TRUE,
       items |-> <<Described("a", 5, "plain", <<3>>), Item("b", 4, "plain"),
                   Item("c", 3, "plain")>>],
      [has_items |-> TRUE,
       items |-> <<Item("b", 6, "plain"), Described("d", 2, "plain", <<2>>),
                   Item("e", 1, "plain")>>],
      [has_items |-> TRUE,
       items |-> <<Described("f", 9, "plain", <<0, 4, 0, 5, 3>>),
                   Item("g", 8, "plain"),
                   Item("", 7, "plain")>>],
      [has_items |-> FALSE, items |-> <<>>] }

\* The parsed bodies a blog search may get; one has an item whose title is null.
BlogBodies ==
    { [has_items |-> TRUE,
       items |-> <<Described("h", 1, "plain",
                             <<15, 7, 0, 8, 0, 9, 10, 11, 7>>)>>],
      [has_items |-> TRUE, items |-> <<Item("h", 2, "null")>>] }

NoBody == [has_items |-> FALSE, items |-> <<>>]

Bodies(source) == IF source = "news" THEN NewsBodies ELSE BlogBodies

\* The items of a response as the search of this step returns them.
From(items, step) ==
    [i \in 1..Len(items) |-> [items[i] EXCEPT !.origin = step]]

\* Python's s[:n]
Take(s, n) == SubSeq(s, 1, Min(n, Len(s)))

\* The deduplication keeping the last item of a link
RECURSIVE LastWinsFrom(_, _, _)
LastWinsFrom(all, i, unique) ==
    IF i > Len(all) THEN unique
    ELSE LET link == all[i].link
             later == \E j \in (i + 1)..Len(all) : all[j].link = link
         IN IF link # "" /\ ~later
            THEN LastWinsFrom(all, i + 1, Append(unique, all[i]))
            ELSE LastWinsFrom(all, i + 1, unique)

UniqueByLinkLastWins(all) == LastWinsFrom(all, 1, <<>>)

\* Lines 212-216 and 272-276: the loop over the collected items
RECURSIVE DedupFrom(_, _, _, _)
DedupFrom(all, i, seen_links, unique) ==
    IF i > Len(all) THEN unique
    ELSE LET link == all[i].link IN
         IF link # "" /\ link \notin seen_links
         THEN DedupFrom(all, i + 1, seen_links \cup {link},
                        Append(unique, all[i]))
         ELSE DedupFrom(all, i + 1, seen_links, unique)

\* Lines 209-216: unique_news, from all_news
UniqueByLink(all) == DedupFrom(all, 1, {}, <<>>)

\* No aggregation has returned.
NoReport == [kind |-> "none", items |-> <<>>, news_count |-> 0,
             blog_count |-> 0, market_keywords |-> {}, error |-> FALSE]

\* Line 219: what search_related_news returns, a list; the counts and the
\* error key belong to search_market_trends only.
RelatedReport(all_news) ==
    [kind |-> "related", items |-> Take(UniqueByLink(all_news), RelatedCap),
     news_count |-> 0, blog_count |-> 0, market_keywords |-> {},
     error |-> FALSE]

\* Lines 297-298: .replace('<b>', '').replace('</b>', '')
Strip(description) == SelectSeq(description, LAMBDA piece : piece # 0)

\* Line 310: candidate in content, a test for a substring, for the one piece
\* of the content that may hold the candidate
Occurs(candidate, piece) ==
    \/ piece = candidate
    \/ candidate = 1 /\ piece = 15

\* Lines 302-311: the candidates found in the content of one item
Found(content) ==
    UNION {{candidate \in 1..VocabularySize : Occurs(candidate, content[j])} :
              j \in 1..Len(content)}

\* Lines 293-311: the set keywords after the loop over all_content
Keywords(all_content) ==
    UNION {Found(Strip(all_content[i].description)) :
              i \in 1..Len(all_content)}

\* The sets that are left when n elements are taken out of S
RECURSIVE DropN(_, _)
DropN(S, n) ==
    IF n = 0 THEN {S} ELSE UNION {DropN(S \ {x}, n - 1) : x \in S}

\* Line 313: list(keywords)[:10].  A set of str is listed in the order of
\* the hashes of its elements, which differs from one run of the interpreter
\* to the next: any 10 of more than 10 keywords may be the ones kept.
ListCut(keywords, n) ==
    IF Cardinality(keywords) <= n
    THEN {keywords}
    ELSE DropN(keywords, Cardinality(keywords) - n)

\* Lines 320-328: what search_market_trends returns when an exception was
\* raised inside it
TrendsError ==
    [kind |-> "trends", items |-> <<>>, news_count |-> 0, blog_count |-> 0,
     market_keywords |-> {}, error |-> TRUE]

\* Lines 286-316: what search_market_trends returns otherwise
TrendsReport(unique_news, unique_blogs, market_keywords) ==
    [kind |-> "trends", items |-> Take(unique_news, LatestCap),
     news_count |-> Len(unique_news), blog_count |-> Len(unique_blogs),
     market_keywords |-> market_keywords, error |-> FALSE]

\* Lines 268-328: the reports search_market_trends may return for the lists
\* it collected.  The keyword analysis calls .replace on the title of every
\* admitted item; on a null title that raises, and the except clause
\* returns the report of lines 320-328.
TrendsReports(all_news, all_blogs) ==
    LET unique_news == UniqueByLink(all_news)
        unique_blogs == UniqueByLink(all_blogs)
        all_content == unique_news \o unique_blogs
    IN IF \E i \in 1..Len(all_content) : all_content[i].title = "null"
       THEN {TrendsError}
       ELSE {TrendsReport(unique_news, unique_blogs, market_keywords) :
                market_keywords \in ListCut(Keywords(all_content), KeywordCap)}

\* No aggregation is running.
AggIdle ==
    /\ agg = [pc |-> "idle", kind |-> "none", step |-> 0,
              query |-> [source |-> "none", keyword |-> "none"],
              all_news |-> <<>>, all_blogs |-> <<>>, failures |-> 0]
    /\ report = NoReport

\* search_related_news() or search_market_trends() is called, up to its
\* first search (lines 202, 255), which calls _make_api_request (line 137).
AggBegin(kind) ==
    /\ agg.pc = "idle"
    /\ callers[1].pc = "idle"
    /\ agg' = [agg EXCEPT !.pc = "waiting", !.kind = kind, !.step = 1,
                          !.query = QueryAt(kind, 1)]
    /\ callers' = [callers EXCEPT ![1] = BeginRequest(1)]
    /\ UNCHANGED <<last_call_time, clk, requests, report>>
    /\ UNCHANGED schedVars

\* The flow outside the client, the value _make_api_request returned used.
Consumed(c) ==
    [callers[c] EXCEPT !.attempt = 0, !.result = "none", !.body = 0,
                       !.attempts = 0, !.outcome = "none"]

\* The search returning a placeholder item for a request that failed
SearchResultsPlaceholder(result, body, step) ==
    IF result = "ok" /\ body.has_items
    THEN From(body.items, step)
    ELSE From(<<Item("", 0, "plain")>>, step)

\* Lines 137-148: what the search returns for the body of a request that
\* returned one: its items, or [] if it has no 'items' key; [] for None and
\* for an exception.
SearchResults(result, body, step) ==
    IF result = "ok" /\ body.has_items THEN From(body.items, step) ELSE <<>>

\* Lines 137-148, 203-206, 256-266 and what follows the last sleep:
\* _make_api_request has returned or raised, the search returns, the
\* aggregation extends its list and sleeps; then comes the next search, or
\* after the last one the deduplication, the cut and the return.
SearchReturn(body, pause) ==
    /\ agg.pc = "waiting"
    /\ callers[1].pc = "idle"
    /\ IF callers[1].result = "ok"
       THEN body \in Bodies(agg.query.source)
       ELSE body = NoBody
    /\ clk' = clk + pause
    /\ LET results == SearchResults(callers[1].result, body, agg.step)
           all_news == IF agg.query.source = "news"
                       THEN agg.all_news \o results ELSE agg.all_news
           all_blogs == IF agg.query.source = "blog"
                        THEN agg.all_blogs \o results ELSE agg.all_blogs
           failures == IF callers[1].result = "ok"
                       THEN agg.failures ELSE agg.failures + 1
           collected == [agg EXCEPT !.all_news = all_news,
                                    !.all_blogs = all_blogs,
                                    !.failures = failures]
       IN IF agg.step < Steps(agg.kind)
          THEN /\ agg' = [collected EXCEPT
                             !.step = agg.step + 1,
                             !.query = QueryAt(agg.kind, agg.step + 1)]
               /\ callers' = [callers EXCEPT ![1] = BeginRequest(1)]
               /\ UNCHANGED report
          ELSE /\ agg' = [collected EXCEPT !.pc = "done"]
               /\ report' \in IF agg.kind = "related"
                               THEN {RelatedReport(all_news)}
                               ELSE TrendsReports(all_news, all_blogs)
               /\ callers' = [callers EXCEPT ![1] = Consumed(1)]
    /\ UNCHANGED <<last_call_time, requests>>
    /\ UNCHANGED schedVars

---------------------------------------------------------------------------
(* The scheduler specification *)

\* The scheduler after __init__.
SchedulerIdle ==
    /\ is_running = FALSE
    /\ is_enabled = FALSE
    /\ target_time = DefaultTargetTime
    /\ last_execution_date = NoDate
    /\ stop_event = FALSE
    /\ scheduler_thread = NoThread
    /\ threads = [i \in ThreadIds |-> FreshThread]
    /\ callerPc = "idle"
    /\ now = [date |-> 1, minute |-> ClockMinutes[1]]
    /\ firesToday = 0
    /\ armed = "none"

Next ==
    \/ \E e \in BOOLEAN, s \in TimeStrings : set_schedule(e, s)
    \/ start_scheduler
    \/ stop_scheduler
    \/ JoinReturn
    \/ force_execution
    \/ ForceReturn
    \/ get_status
    \/ \E i \in ThreadIds : LoopIteration(i)
    \/ \E i \in ThreadIds, raised \in BOOLEAN : TaskEnd(i, raised)
    \/ Tick

Init ==
    /\ SchedulerIdle
    /\ ClientIdle
    /\ AggIdle

Spec == Init /\ [][Next]_vars

\* The threads keep running: every loop thread that can take its next step
\* again and again takes it, the event being set and cleared meanwhile or
\* not; target_function returns or raises in the end; join returns; and
\* time passes.
SpecFair ==
    /\ Spec
    /\ \A i \in ThreadIds : SF_vars(LoopIteration(i))
    /\ \A i \in ThreadIds : WF_vars(\E raised \in BOOLEAN : TaskEnd(i, raised))
    /\ WF_vars(JoinReturn)
    /\ WF_vars(Tick)

---------------------------------------------------------------------------
(* The rate limiter specifications *)

\* One flow calls _wait_for_rate_limit, and again as soon as it has returned.
SingleInit ==
    /\ SchedulerIdle
    /\ AggIdle
    /\ last_call_time = 0
    /\ clk = Epoch
    /\ callers = [c \in CallerIds |->
                     IF c = 1
                     THEN [IdleCaller EXCEPT !.pc = "call", !.ret = "call"]
                     ELSE IdleCaller]
    /\ requests = 0

\* Every flow does.
SharedInit ==
    /\ SchedulerIdle
    /\ AggIdle
    /\ last_call_time = 0
    /\ clk = Epoch
    /\ callers = [c \in CallerIds |->
                     [IdleCaller EXCEPT !.pc = "call", !.ret = "call"]]
    /\ requests = 0

RateNext ==
    \/ \E c \in CallerIds, jitter \in JitterMin..JitterMax : RateRead(c, jitter)
    \/ \E c \in CallerIds : RateWake(c)
    \/ \E c \in CallerIds : RateStamp(c)
    \/ RateTick

SpecRateSingle == SingleInit /\ [][RateNext]_vars

SpecRate == SharedInit /\ [][RateNext]_vars

---------------------------------------------------------------------------
(* The request specification: one flow calls _make_api_request *)

RequestNext ==
    \/ ReqBegin(1)
    \/ \E jitter \in JitterMin..JitterMax : RateRead(1, jitter)
    \/ RateWake(1)
    \/ RateStamp(1)
    \/ \E outcome \in Outcomes, duration \in HttpDurations :
          HttpAttempt(1, outcome, duration)
    \/ NextIteration(1)
    \/ ReqSleep(1)

SpecRequest == Init /\ [][RequestNext]_vars

\* The flow keeps running: a sleep ends, a request is answered or times out.
SpecRequestFair == SpecRequest /\ WF_vars(RequestNext)

---------------------------------------------------------------------------
(* The aggregation specification: one flow runs one aggregation *)

\* The outcomes of the attempts of an aggregation, each answered at once.
AggOutcomes == {"200", "500", "badjson"}

\* The pauses between searches drawn by random.uniform
PauseTimes == {PauseMin, PauseMax}

\* The pauses between attempts and between searches are never shorter than
\* min_delay, so _wait_for_rate_limit never sleeps here.
AggNext ==
    \/ \E kind \in {"related", "trends"} : AggBegin(kind)
    \/ \E jitter \in JitterMin..JitterMax : RateRead(1, jitter)
    \/ RateStamp(1)
    \/ \E outcome \in AggOutcomes : HttpAttempt(1, outcome, 0)
    \/ NextIteration(1)
    \/ ReqSleep(1)
    \/ \E body \in NewsBodies \cup BlogBodies \cup {NoBody},
          pause \in PauseTimes : SearchReturn(body, pause)

SpecAggregate == Init /\ [][AggNext]_vars

TypeOK ==
    /\ is_running \in BOOLEAN
    /\ is_enabled \in BOOLEAN
    /\ target_time \in [hour : 0..23, minute : 0..59]
    /\ last_execution_date \in {NoDate} \cup Days
    /\ stop_event \in BOOLEAN
    /\ scheduler_thread \in {NoThread} \cup ThreadIds
    /\ \A i \in ThreadIds :
          /\ threads[i].pc \in {"none", "while", "task", "wait"}
          /\ threads[i].cur_date \in {NoDate} \cup Days
          /\ threads[i].interval \in {0, PollInterval, CooldownInterval}
    /\ callerPc \in {"idle", "joining", "forcing"}
    /\ now.date \in Days
    /\ firesToday \in 0..2
    /\ armed \in {"none", "busy", "idle"}


---------------------------------------------------------------------------
(* Claims about the scheduler, checked under Spec *)

\* C1: on every date the background loops of the scheduler invoke the task
\* through the automatic trigger at most once.
C1_AtMostOncePerDay == firesToday <= 1

\* C2: once stop_scheduler() has returned (and the scheduler has not been
\* started again) no background loop is executing an iteration or the task.
C2_NoIterationAfterStop ==
    (~is_running /\ callerPc # "joining") => LiveThreads = {}

\* The clock leaves the trigger window of the current date.
LeavesWindow ==
    /\ now' # now
    /\ InWindow(now.minute, target_time)
    /\ ~(now'.date = now.date /\ InWindow(now'.minute, target_time))

\* C3 as claimed: when the scheduler was running and enabled with the same
\* target time from the opening of the date's trigger window to its end, the
\* task has been fired on that date by the time the window ends.
C3_FiresInWindow ==
    [][(LeavesWindow /\ armed # "none") => firesToday >= 1]_vars

\* C3 as amended: the same, when in addition some background loop was between
\* two polls (not inside a task execution) as the window opened.
C3_FiresInWindowWhenIdle ==
    [][(LeavesWindow /\ armed = "idle") => firesToday >= 1]_vars

C3_Witness ==
    /\ armed = "idle"
    /\ now.date = 2
    /\ last_execution_date = 1
    /\ firesToday = 1

\* A step of the foreground flow entering or leaving force_execution().
ForceStep ==
    \/ callerPc = "idle" /\ callerPc' = "forcing"
    \/ callerPc = "forcing" /\ callerPc' = "idle"

\* C4: force_execution() can be invoked whatever is_enabled, is_running and
\* last_execution_date are; it leaves last_execution_date, is_enabled,
\* is_running and target_time unchanged, and with them the outcome of the
\* automatic trigger's check.
C4_ForceExecutionFrame ==
    [][/\ callerPc = "idle" => ENABLED force_execution
       /\ ForceStep =>
            /\ UNCHANGED <<last_execution_date, is_enabled, is_running,
                           target_time, firesToday>>
            /\ \A k \in 1..Len(ClockMinutes), d \in Days :
                  ShouldExecute(ClockMinutes[k], d)'
                     = ShouldExecute(ClockMinutes[k], d)]_vars

C4_Witness ==
    /\ callerPc = "forcing"
    /\ ~is_enabled
    /\ ~is_running
    /\ last_execution_date = now.date

\* The well-formed time strings of TimeStrings and the times they denote.
WellFormed == { <<"0", "9", ":", "0", "0">>, <<"0", "9", ":", "1", "0">> }

Denotes(s) == IF s = <<"0", "9", ":", "0", "0">>
              THEN [hour |-> 9, minute |-> 0]
              ELSE [hour |-> 9, minute |-> 10]

\* The background loop is started: a new loop thread, event cleared.
LoopStarted ==
    /\ is_running' /\ ~stop_event'
    /\ \E i \in ThreadIds : ~IsAlive(i) /\ threads'[i].pc = "while"
                            /\ scheduler_thread' = i

\* The loop is told to stop and the caller waits for it.
LoopStopped ==
    /\ ~is_running' /\ stop_event'
    /\ callerPc' = "joining" <=> IsAlive(scheduler_thread)

\* The loop threads are left as they are.
LoopUntouched ==
    UNCHANGED <<threads, scheduler_thread, stop_event, is_running, callerPc>>

\* A step that changes the configuration or the running flag, as every
\* step of set_schedule that changes anything does.
ConfigChanges ==
    /\ callerPc = "idle"
    /\ <<is_enabled, is_running, target_time>>'
          # <<is_enabled, is_running, target_time>>

\* The transitions claimed of set_schedule(e, s), as a property of a step.
Transitions(e, s) ==
    /\ (e /\ ~is_running) => LoopStarted
    /\ (~e /\ is_running) => LoopStopped
    /\ (e /\ is_running) => LoopUntouched

\* The transitions of set_schedule(e, s) when an enabling call carries a
\* well-formed time, with the configuration they leave.
TransitionsWellFormed(e, s) ==
    /\ (e /\ s \in WellFormed /\ ~is_running) =>
          LoopStarted /\ is_enabled' /\ target_time' = Denotes(s)
    /\ (~e /\ is_running) => LoopStopped /\ ~is_enabled'
    /\ (e /\ s \in WellFormed /\ is_running) =>
          LoopUntouched /\ is_enabled' /\ target_time' = Denotes(s)

C6_PollFiresIff ==
    [][\A i \in ThreadIds :
          (AtLoopHead(i) /\ ~stop_event /\ now' = now
              /\ threads'[i] # threads[i]) =>
             (threads'[i].pc = "task" <=>
                 /\ is_enabled
                 /\ now.date # last_execution_date
                 /\ Abs(now.minute - (target_time.hour * 60 + target_time.minute))
                       <= 5)]_vars

C6_Witness ==
    \E i \in ThreadIds :
       /\ threads[i].pc = "task"
       /\ threads[i].cur_date = now.date
       /\ now.minute = 535
       /\ target_time = [hour |-> 9, minute |-> 0]

\* C7: when the task ends, by returning or by raising, the loop thread goes
\* on to its next wait: it does not end and nothing reaches the caller.
C7_TaskExceptionCaught ==
    [][\A i \in ThreadIds :
          (threads[i].pc = "task" /\ threads'[i].pc # "task") =>
             /\ threads'[i].pc = "wait"
             /\ callerPc' = callerPc
             /\ is_running' = is_running]_vars

C7_Witness ==
    \E i \in ThreadIds :
       /\ threads[i].raised
       /\ threads[i].pc = "wait"
       /\ is_running

---------------------------------------------------------------------------
(* Claims about the rate limiter, checked under SpecRateSingle and SpecRate *)

\* C8: each return of _wait_for_rate_limit to a flow comes at least min_delay
\* (0.5 s) after the previous return to the same flow.
C8_EnforcedSpacing ==
    [][\A c \in CallerIds :
          (callers[c].pc = "stamp" /\ callers'[c].pc # "stamp"
              /\ callers[c].returns > 0) =>
             clk - callers[c].last_return >= 5]_vars

C8_Witness ==
    \E c \in CallerIds :
       /\ callers[c].returns = 2
       /\ callers[c].last_return = last_call_time
       /\ callers[c].last_return >= Epoch + 6

\* C9: the returns of _wait_for_rate_limit to two flows sharing the client
\* are at least min_delay (0.5 s) apart.
C9_CallersSerialized ==
    \A c \in CallerIds, o \in CallerIds :
       (c # o /\ callers[c].returns > 0 /\ callers[o].returns > 0) =>
          Abs(callers[c].last_return - callers[o].last_return) >= 5

---------------------------------------------------------------------------
(* Claims about _make_api_request, checked under SpecRequest *)

\* C10: a physical attempt is entered only from the return of a
\* _wait_for_rate_limit call that recorded its timestamp, and every attempt,
\* the first and each retry, is made with such a call completed since the
\* attempt before it.
C10_EveryAttemptRateLimited ==
    [][\A c \in CallerIds :
          /\ (callers'[c].pc = "http" /\ callers[c].pc # "http") =>
                (callers[c].pc = "stamp" /\ last_call_time' = clk)
          /\ (callers[c].pc = "http" /\ callers'[c].pc # "http") =>
                callers[c].acquired]_vars

C10_Witness ==
    \E c \in CallerIds :
       /\ callers[c].pc = "http"
       /\ callers[c].attempt = 2
       /\ callers[c].acquired
       /\ last_call_time = clk

\* An attempt of flow c is made in this step.
Attempted(c) ==
    /\ callers[c].pc = "http"
    /\ callers'[c].attempts = callers[c].attempts + 1

\* The failures after which the method tries again.
Retryable == {"429", "500", "timeout", "connerr"}

\* C11: an attempt answered 200 makes the method return at once with the
\* body of that attempt, the k-th physical attempt being the k-th iteration;
\* a retryable failure before the last attempt is followed by the sleep and
\* the next iteration; a request that returned a body made no attempt after
\* the one the body is from.
C11_RetryThenSucceed ==
    [][\A c \in CallerIds :
          /\ (Attempted(c) /\ callers'[c].outcome = "200") =>
                /\ callers'[c].pc = "idle"
                /\ callers'[c].result = "ok"
                /\ callers'[c].body = callers[c].attempt + 1
                /\ callers'[c].attempts = callers[c].attempt + 1
          /\ (Attempted(c) /\ callers'[c].outcome \in Retryable
                /\ callers'[c].attempts < 3) =>
                callers'[c].pc = "backoff"
          /\ (callers[c].pc = "backoff" /\ callers'[c].pc # "backoff"
                /\ callers[c].attempts < 3) =>
                /\ callers'[c].pc = "call"
                /\ callers'[c].attempt = callers[c].attempts
          /\ callers'[c].result = "ok" =>
                /\ callers'[c].outcome = "200"
                /\ callers'[c].body = callers'[c].attempts]_vars

C11_Witness ==
    \E c \in CallerIds :
       /\ callers[c].pc = "idle"
       /\ callers[c].result = "ok"
       /\ callers[c].body = 3
       /\ callers[c].attempts = 3

\* C12: a request never makes more than max_retries (3) attempts, one that
\* returns the failure result has made exactly 3, none of them answered 200,
\* and every request begun returns.
C12_BoundedRetry ==
    /\ [](\A c \in CallerIds :
             /\ callers[c].attempts <= 3
             /\ callers[c].result = "failed" =>
                   (callers[c].attempts = 3 /\ callers[c].outcome # "200"))
    /\ \A c \in CallerIds :
          (callers[c].pc # "idle") ~> (callers[c].pc = "idle")

C12_Witness ==
    \E c \in CallerIds :
       /\ callers[c].pc = "idle"
       /\ callers[c].result = "failed"
       /\ callers[c].outcome = "500"
       /\ callers[c].attempts = 3

\* C13: after a 429 on attempt number a (from 0) the method sleeps
\* min(0.5 * 2^a, 30) seconds, and the next iteration starts no earlier; the
\* delay does not decrease with a and never exceeds 30 seconds.
C13_Backoff429 ==
    [][/\ \A c \in CallerIds :
             /\ (Attempted(c) /\ callers'[c].outcome = "429") =>
                   /\ callers'[c].pc = "backoff"
                   /\ callers'[c].wake - clk' =
                         Min(5 * 2^(callers[c].attempt), 300)
             /\ (callers[c].pc = "backoff" /\ callers'[c].pc # "backoff") =>
                   clk >= callers[c].wake
       /\ \A a \in 0..MaxExponent :
             /\ RetryDelay(a) = Min(5 * 2^a, 300)
             /\ RetryDelay(a) <= RetryDelay(a + 1)
             /\ RetryDelay(a) <= 300]_vars

C13_Witness ==
    \E c \in CallerIds :
       /\ callers[c].pc = "backoff"
       /\ callers[c].outcome = "429"
       /\ callers[c].attempt = 2
       /\ callers[c].wake = clk + 20

---------------------------------------------------------------------------
(* Claims about the aggregations, checked under SpecAggregate *)

\* An aggregation has returned its merged result.
Merged == agg.pc = "done" /\ ~report.error

\* The links of the items of a sequence
Links(items) == {items[i].link : i \in 1..Len(items)}

\* The items of the news searches admitted to the merged set: the first of
\* every link that is not empty
Admitted == {i \in 1..Len(agg.all_news) :
               /\ agg.all_news[i].link # ""
               /\ \A j \in 1..(i - 1) :
                     agg.all_news[j].link # agg.all_news[i].link}

\* C14: no two items of the merged result share a link; every item of it is
\* the first one, in the order the searches ran, that had its link; the
\* result holds the admitted items in that order, all of them up to the cap,
\* and search_market_trends counts them all.
C14_FirstSeenWins ==
    Merged =>
       /\ \A i, j \in 1..Len(report.items) :
             report.items[i].link = report.items[j].link => i = j
       /\ \A i \in 1..Len(report.items) :
             \E p \in Admitted :
                /\ agg.all_news[p] = report.items[i]
                /\ Cardinality({q \in Admitted : q <= p}) = i
       /\ Len(report.items) =
             Min(Cardinality(Admitted),
                 IF report.kind = "related" THEN 15 ELSE 5)
       /\ report.kind = "trends" => report.news_count = Cardinality(Admitted)

C14_Witness ==
    /\ Merged
    /\ report.kind = "related"
    /\ Len(report.items) = 5
    /\ report.items[2] = [link |-> "b", pubDate |-> 4, title |-> "plain",
                          description |-> <<>>, origin |-> 1]
    /\ \E p \in 1..Len(agg.all_news) :
          agg.all_news[p].link = "b" /\ agg.all_news[p].origin = 2

\* C15: the merged result is sorted by pubDate, most recent first.
C15_SortedByDate ==
    Merged =>
       \A i, j \in 1..Len(report.items) :
          i < j => report.items[i].pubDate >= report.items[j].pubDate

\* C16: the merged result has at most 15 items (search_related_news) or 5
\* (latest_news of search_market_trends), and an admitted item that was cut
\* is no more recent than any item kept.
C16_CapKeepsMostRecent ==
    Merged =>
       /\ Len(report.items) <= (IF report.kind = "related" THEN 15 ELSE 5)
       /\ \A p \in Admitted :
             agg.all_news[p].link \notin Links(report.items) =>
                \A i \in 1..Len(report.items) :
                   report.items[i].pubDate >= agg.all_news[p].pubDate

\* C17: an aggregation all of whose searches failed returns no items and an
\* error field.
C17_AllFailedHasReason ==
    (agg.pc = "done" /\ agg.failures = Steps(agg.kind)) =>
       (report.items = <<>> /\ report.error)

\* The search of this step returns in this step.
Returns == agg.pc = "waiting" /\ agg' # agg

\* C18: a search whose request returned None or raised adds no item to the
\* collected lists and the aggregation goes on: the next search is called,
\* or after the last search a report is returned; the lists collected hold
\* the items of the searches that succeeded, and every link among them is
\* in what search_related_news returns.
C18_FailuresAbsorbed ==
    [][/\ (Returns /\ callers[1].result # "ok") =>
             /\ agg'.all_news = agg.all_news
             /\ agg'.all_blogs = agg.all_blogs
       /\ (Returns /\ agg.step < Steps(agg.kind)) =>
             /\ agg'.pc = "waiting" /\ agg'.step = agg.step + 1
             /\ callers'[1].pc = "call"
       /\ (Returns /\ agg.step = Steps(agg.kind)) =>
             /\ agg'.pc = "done" /\ report'.kind = agg.kind
             /\ Len(agg'.all_news) + Len(agg'.all_blogs) > 0 =>
                   agg'.failures < Steps(agg.kind)
             /\ report'.kind = "related" =>
                   Links(report'.items) = Links(agg'.all_news) \ {""}
       /\ Returns =>
             /\ Len(agg'.all_news) >= Len(agg.all_news)
             /\ SubSeq(agg'.all_news, 1, Len(agg.all_news)) = agg.all_news]_vars

C18_Witness ==
    /\ agg.pc = "done"
    /\ report.kind = "related"
    /\ agg.failures = 2
    /\ Links(report.items) = {"f", "g"}
    /\ \A i \in 1..Len(agg.all_news) : agg.all_news[i].origin = 3

\* C19: a physical request is made only inside the search of the current
\* step; a search is called only when the request of the search before it
\* has returned, it is the next one in the order of the keywords (news
\* before blog for each keyword in search_market_trends), and at most one
\* flow is inside the client.
C19_QueriesSequential ==
    [][/\ Attempted(1) => agg.pc = "waiting"
       /\ agg'.step # agg.step =>
             /\ callers[1].pc = "idle"
             /\ agg'.step = agg.step + 1
             /\ callers'[1].pc = "call" /\ callers'[1].attempts = 0
       /\ agg'.pc = "waiting" =>
             /\ agg'.step \in 1..(IF agg'.kind = "related" THEN 3 ELSE 6)
             /\ agg'.query =
                  IF agg'.kind = "related"
                  THEN [source |-> "news",
                        keyword |-> SearchKeywords[agg'.step]]
                  ELSE [source |-> <<"news", "blog", "news", "blog",
                                     "news", "blog">>[agg'.step],
                        keyword |-> SearchKeywords[<<1, 1, 2, 2, 3, 3>>[agg'.step]]]
       /\ Cardinality({c \in CallerIds : callers'[c].pc # "idle"}) <= 1]_vars

C19_Witness ==
    /\ agg.pc = "waiting"
    /\ agg.kind = "trends"
    /\ agg.step = 6
    /\ agg.query = [source |-> "blog", keyword |-> "cheongyak"]
    /\ callers[1].pc = "http"
    /\ callers[1].attempt = 1

---------------------------------------------------------------------------
(* Further claims about the scheduler, checked under Spec *)

\* C20: while a scheduled task execution is running, last_execution_date
\* already is the date on which it was fired.
C20_DateRecordedBeforeTask ==
    \A i \in ThreadIds :
       threads[i].pc = "task" => last_execution_date = threads[i].cur_date

\* C21: last_execution_date changes only in the step in which a scheduled
\* task execution ends, by return or by exception, and becomes the date on
\* which that execution was fired; set_schedule, start_scheduler,
\* stop_scheduler, force_execution and get_status leave it alone; and
\* _should_execute compares it with the date only: on the recorded date it
\* answers no at every time of the day, on another date it answers by the
\* window alone.
C21_DateChangesOnlyAfterTask ==
    [][/\ last_execution_date' # last_execution_date =>
             \E i \in ThreadIds :
                /\ threads[i].pc = "task"
                /\ threads'[i].pc # "task"
                /\ last_execution_date' = threads[i].cur_date
       /\ (\E i \in ThreadIds : threads[i].pc = "task" /\ threads'[i].pc # "task")
             => last_execution_date' # NoDate
       /\ (callerPc # callerPc' \/ is_running' # is_running
             \/ is_enabled' # is_enabled \/ target_time' # target_time)
             => last_execution_date' = last_execution_date
       /\ \A m \in 1..Len(ClockMinutes), d \in Days :
             ShouldExecute(ClockMinutes[m], d) =
                (d # last_execution_date
                   /\ InWindow(ClockMinutes[m], target_time))]_vars

C21_Witness ==
    /\ last_execution_date = 2
    /\ now.date = 2
    /\ callerPc = "forcing"
    /\ \E i \in ThreadIds : threads[i].pc = "wait" /\ threads[i].raised

\* C22: after a scheduled task execution that raised an exception the loop
\* pauses for the cooldown interval of 60 seconds, not for the poll interval
\* of 30 seconds, before its next trigger check.
C22_CooldownAfterFailure ==
    \A i \in ThreadIds :
       (threads[i].pc = "wait" /\ threads[i].raised)
          => threads[i].interval = CooldownInterval

---------------------------------------------------------------------------
(* Further claims about _make_api_request, checked under SpecRequest *)

\* The fixed delay, in tenths of a second, after a failure that is no 429
FixedDelay(outcome) ==
    CASE outcome = "500" -> 10
      [] outcome = "timeout" -> 20
      [] outcome = "connerr" -> 10

\* C23: an attempt that fails with another status than 429, with a timeout
\* or with a connection error is followed, while attempts remain, by a fixed
\* sleep of 1, 2 and 1 seconds and then by one more attempt; when it was the
\* last of the max_retries (3) attempts the request returns the failure
\* result with no parsed body and makes no further attempt.
C23_FixedDelayRetry ==
    [][\A c \in CallerIds :
          /\ (Attempted(c)
                /\ callers'[c].outcome \in {"500", "timeout", "connerr"}) =>
                IF callers'[c].attempts < 3
                THEN /\ callers'[c].pc = "backoff"
                     /\ callers'[c].result = "pending"
                     /\ callers'[c].wake - clk' = FixedDelay(callers'[c].outcome)
                ELSE \/ /\ callers'[c].pc = "idle"
                        /\ callers'[c].result = "failed"
                        /\ callers'[c].body = 0
                     \/ /\ callers'[c].pc = "backoff"
                        /\ callers'[c].wake = clk'
          /\ (callers[c].pc = "backoff" /\ callers'[c].pc # "backoff"
                /\ callers[c].outcome \in {"500", "timeout", "connerr"}) =>
                IF callers[c].attempts < 3
                THEN /\ clk >= callers[c].wake
                     /\ callers'[c].pc = "call"
                     /\ callers'[c].attempt = callers[c].attempt + 1
                ELSE /\ callers'[c].pc = "idle"
                     /\ callers'[c].result = "failed"
                     /\ callers'[c].body = 0
          /\ (callers[c].pc = "idle" /\ callers[c].result = "failed") =>
                callers[c].attempts = 3]_vars

C23_Witness ==
    \E c \in CallerIds :
       /\ callers[c].pc = "idle"
       /\ callers[c].result = "failed"
       /\ callers[c].outcome = "timeout"
       /\ callers[c].attempts = 3
       /\ callers[c].body = 0

\* The kind of ClientError that names the failure of the last attempt
KindOf(outcome) ==
    CASE outcome = "429" -> "RateLimited"
      [] outcome = "500" -> "Http"
      [] outcome = "timeout" -> "Timeout"
      [] outcome = "connerr" -> "Network"
      [] OTHER -> "none"

\* C24: a request that returns after max_retries (3) failed attempts returns
\* an error value that names the kind of the failure (RateLimited, Http,
\* Timeout or Network) and carries no partial result.
C24_ErrorKindReturned ==
    \A c \in CallerIds :
       (callers[c].pc = "idle" /\ callers[c].result = "failed") =>
          /\ callers[c].attempts = 3
          /\ ReturnValue(c).body = 0
          /\ ReturnValue(c).kind = KindOf(callers[c].outcome)

---------------------------------------------------------------------------
(* A further claim about search_market_trends, checked under SpecAggregate *)

\* The items of the blog searches admitted to the merged set
AdmittedBlogs == {i \in 1..Len(agg.all_blogs) :
                    /\ agg.all_blogs[i].link # ""
                    /\ \A j \in 1..(i - 1) :
                          agg.all_blogs[j].link # agg.all_blogs[i].link}

\* The candidate occurs in the description of the item with its <b> and </b>
\* tags taken out.
OccursIn(candidate, item) ==
    \E i \in 1..Len(item.description) :
       /\ item.description[i] # 0
       /\ \/ item.description[i] = candidate
          \/ candidate = 1 /\ item.description[i] = 15

\* C25: a candidate of the vocabulary is among the market keywords
\* search_market_trends reports if and only if it occurs in the title and
\* description, without their markup, of an admitted news or blog item.
C25_KeywordsCompleteAndSound ==
    (Merged /\ report.kind = "trends") =>
       \A candidate \in 1..18 :
          candidate \in report.market_keywords
             <=> \/ \E p \in Admitted : OccursIn(candidate, agg.all_news[p])
                 \/ \E p \in AdmittedBlogs :
                       OccursIn(candidate, agg.all_blogs[p])

---------------------------------------------------------------------------
(* Claims about the scheduler's threads and its remaining operations,
   checked under Spec *)

\* C26: whatever calls of set_schedule, start_scheduler and stop_scheduler
\* were made, a stop followed by a start while the old loop is inside a task
\* included, at most one thread is executing _scheduler_loop.
C26_OneLoopThread == Cardinality(LiveThreads) <= 1

\* The invocations of target_function in progress: those of the loop threads
\* and the one of force_execution on the foreground flow
InProgress ==
    Cardinality({i \in ThreadIds : threads[i].pc = "task"})
       + (IF callerPc = "forcing" THEN 1 ELSE 0)

\* C27: at most one invocation of target_function is in progress: a
\* force_execution() never overlaps a scheduled execution, and no two
\* scheduled executions overlap.
C27_NoOverlappingExecutions == InProgress <= 1

\* C28: set_schedule called to enable with a time string that is not a
\* well-formed HH:MM leaves is_enabled, is_running, target_time and
\* last_execution_date as they were.
C28_MalformedTimeNoEffect ==
    [][\A s \in TimeStrings \ WellFormed :
          set_schedule(TRUE, s) =>
             UNCHANGED <<is_enabled, is_running, target_time,
                         last_execution_date>>]_vars

\* C29: the background loop that is running when stop_scheduler() is called
\* exits in the end, whatever is called after stop_scheduler() has returned.
C29_StoppedLoopExits ==
    \A i \in ThreadIds :
       (callerPc = "joining" /\ scheduler_thread = i /\ IsAlive(i))
          ~> ~IsAlive(i)

\* An automatic run of the current date has been fired and none of the
\* current date is still in progress.
RanToday ==
    /\ firesToday >= 1
    /\ \A i \in ThreadIds :
          threads[i].pc = "task" => threads[i].cur_date # now.date

\* C30: stop_scheduler, start_scheduler and set_schedule, a change of
\* target_time included, leave last_execution_date unchanged, and once an
\* automatic run of a date has completed no other automatic run is fired on
\* that date, whatever was stopped, started or reconfigured in between.
C30_DateSurvivesReconfiguration ==
    [][/\ ConfigChanges => UNCHANGED last_execution_date
       /\ RanToday => firesToday' <= firesToday]_vars

===========================================================================
